---- MODULE Spec2Model ----
(***************************************************************************)
(* The LaserDiffraction component (React): five pieces of state, the       *)
(* effect that derives the particle size from the material, the effect     *)
(* that repaints the canvas (generatePattern), the "Generate" button and   *)
(* the screenshot export (takeScreenshot).                                 *)
(*                                                                         *)
(* Text fields hold strings, modelled as sequences of one-character        *)
(* strings; parseFloat and toString are computed on them.  Doubles are     *)
(* modelled by exact real arithmetic: a parsed number is an integer or     *)
(* NaN, sinTheta is a reduced fraction (or NaN, or an infinity), and a     *)
(* pixel radius is the real num / (den * sqrt(rad)) (or NaN), compared     *)
(* exactly.  Rounding of the double operations is not modelled.  The zoom  *)
(* slider's value is held in tenths (1.0 is 10).                           *)
(***************************************************************************)
EXTENDS Integers, Sequences, FiniteSets, TLC

VARIABLES
  wavelength,        \* useState<string>('650')
  distance,          \* useState<string>('100')
  particleSize,      \* useState<string>('10')
  selectedMaterial,  \* useState<string>('lycopodium')
  zoomLevel,         \* useState<number[]>([1]), zoomLevel[0] in tenths
  materialEffect,    \* the effect on [selectedMaterial] is still to run
  renderEffect,      \* the effect on the five parameters is still to run
  queued,            \* setParticleSize argument an effect queued: <<>> or <<string>>
  mounted,           \* FALSE once an effect has thrown and React dropped the tree
  canvas,            \* drawing operations on the visible canvas since the last clear
  mainEnv,           \* "ok" | "noCanvas" (canvasRef.current null) | "noContext"
  shotEnv,           \* the same for the hidden screenshot canvas
  shot,              \* the hidden canvas: [width, height, painted]
  shotCalls,         \* calls of takeScreenshot so far
  downloads,         \* link.click() calls so far
  lastRun,           \* history: inputs and per-order outcome of the last generatePattern
  typed,             \* history: the string typed into the particle-size field
                     \* that scen follows, <<>> when scen is "none"
  scen               \* history: "typed" (a size was typed under custom), then
                     \* "lyco" (lycopodium selected), then "back" (custom again)

params == <<wavelength, distance, particleSize, selectedMaterial, zoomLevel>>
vars == <<wavelength, distance, particleSize, selectedMaterial, zoomLevel,
          materialEffect, renderEffect, queued, mounted, canvas, mainEnv,
          shotEnv, shot, shotCalls, downloads, lastRun, typed, scen>>

(***************************************************************************)
(* Bounds of the model.                                                    *)
(***************************************************************************)
MaxShots == 1

\* Strings the user types into the numeric fields: in range, out of range,
\* zero, negative and empty (what a cleared or invalid number input reports).
WavelengthChoices ==
  { <<"6","5","0">>, <<"1","0","0","0">>, <<>>, <<"0">>, <<"-","5","0","0">> }
DistanceChoices == { <<"1","0","0">>, <<"1","2">>, <<>>, <<"-","1","2">> }
ParticleChoices == { <<"1","3">>, <<"0">>, <<>> }
\* Slider positions, in tenths (0.5, 1.0, 2.0); the slider allows 0.1 .. 5.0.
ZoomChoices == { 5, 10, 20 }
Materials == { "lycopodium", "silica", "custom" }
Envs == { "ok", "noCanvas", "noContext" }

(***************************************************************************)
(* Numbers.                                                                *)
(***************************************************************************)
Abs(n) == IF n < 0 THEN -n ELSE n
Sign(n) == IF n < 0 THEN -1 ELSE IF n > 0 THEN 1 ELSE 0

RECURSIVE Gcd(_, _)
Gcd(a, b) == IF b = 0 THEN Abs(a) ELSE Gcd(b, a % Abs(b))

NaN == [nan |-> TRUE, v |-> 0]
Num(n) == [nan |-> FALSE, v |-> n]

DigitChars == <<"0", "1", "2", "3", "4", "5", "6", "7", "8", "9">>
IsDigit(c) == \E i \in 1..10 : DigitChars[i] = c
DigitVal(c) == (CHOOSE i \in 1..10 : DigitChars[i] = c) - 1

\* Length of the longest prefix of s made of digits.
RECURSIVE DigitPrefix(_)
DigitPrefix(s) ==
  IF s = <<>> \/ ~IsDigit(Head(s)) THEN 0 ELSE 1 + DigitPrefix(Tail(s))

RECURSIVE DigitsValue(_, _)
DigitsValue(s, acc) ==
  IF s = <<>> THEN acc ELSE DigitsValue(Tail(s), 10 * acc + DigitVal(Head(s)))

\* parseFloat on strings of an optional sign and digits: the number the
\* leading digits spell, NaN when there is none (the empty string).
parseFloat(s) ==
  LET neg == s # <<>> /\ Head(s) = "-"
      signed == s # <<>> /\ Head(s) \in {"-", "+"}
      body == IF signed THEN Tail(s) ELSE s
      n == DigitPrefix(body)
  IN IF n = 0 THEN NaN
     ELSE Num((IF neg THEN -1 ELSE 1) * DigitsValue(SubSeq(body, 1, n), 0))

\* Number.prototype.toString of an integer.
RECURSIVE toString(_)
toString(n) ==
  IF n < 0 THEN <<"-">> \o toString(-n)
  ELSE IF n < 10 THEN <<DigitChars[n + 1]>>
  ELSE toString(n \div 10) \o <<DigitChars[(n % 10) + 1]>>

\* Naturals too large for a machine integer: base-100 digits, least first.
RECURSIVE BigOf(_)
BigOf(n) == IF n = 0 THEN <<>> ELSE <<n % 100>> \o BigOf(n \div 100)

RECURSIVE BigTimesC(_, _, _)
BigTimesC(b, k, c) ==
  IF b = <<>> THEN BigOf(c)
  ELSE LET t == Head(b) * k + c
       IN <<t % 100>> \o BigTimesC(Tail(b), k, t \div 100)
BigTimes(b, k) == BigTimesC(b, k, 0)

RECURSIVE BigCmp(_, _)
BigCmp(a, b) ==
  IF a = <<>> /\ b = <<>> THEN 0
  ELSE LET ha == IF a = <<>> THEN 0 ELSE Head(a)
           hb == IF b = <<>> THEN 0 ELSE Head(b)
           ta == IF a = <<>> THEN <<>> ELSE Tail(a)
           tb == IF b = <<>> THEN <<>> ELSE Tail(b)
           c == BigCmp(ta, tb)
       IN IF c # 0 THEN c ELSE Sign(ha - hb)

\* A real num / (den * sqrt(rad)), den > 0, rad > 0, or NaN.
RNaN == [nan |-> TRUE, num |-> 0, den |-> 1, rad |-> 1]
Real(num, den, rad) == [nan |-> FALSE, num |-> num, den |-> den, rad |-> rad]
RInt(n) == Real(n, 1, 1)

\* |x|^2 * (y.den)^2 * y.rad for the cross-multiplied comparison of x and y.
RCross(x, y) ==
  BigTimes(BigTimes(BigTimes(BigTimes(BigOf(y.rad), y.den), y.den),
                    Abs(x.num)), Abs(x.num))

\* x <= y as IEEE comparison of the two reals: false when either is NaN.
RLe(x, y) ==
  /\ ~x.nan
  /\ ~y.nan
  /\ IF x.num <= 0 /\ y.num >= 0 THEN TRUE
     ELSE IF x.num > 0 /\ y.num <= 0 THEN FALSE
     ELSE IF x.num > 0 THEN BigCmp(RCross(x, y), RCross(y, x)) <= 0
     ELSE BigCmp(RCross(x, y), RCross(y, x)) >= 0
RGt(x, y) == ~x.nan /\ ~y.nan /\ ~RLe(x, y)
REq(x, y) == RLe(x, y) /\ RLe(y, x)
RTimesInt(x, k) == IF x.nan THEN RNaN ELSE Real(x.num * k, x.den, x.rad)
RAbs(x) == IF x.nan THEN RNaN ELSE Real(Abs(x.num), x.den, x.rad)

(***************************************************************************)
(* The program's constants.                                                *)
(***************************************************************************)
\* Mutant of maxOrder: the loop runs one order too far.
maxOrderPlusOne == 10 + 1

maxOrder == 10
baseScaleFactor == 4000
canvasWidth == 800
canvasHeight == 400
spotRadius == 5
shotWidth == 800
shotHeight == 500
captionBand == 100

\* Preset particle sizes in micrometres; <<>> is null.
materialsData ==
  [lycopodium |-> <<30>>, silica |-> <<5>>, custom |-> <<>>]
Truthy(entry) == entry # <<>> /\ entry[1] # 0

\* disabled={selectedMaterial !== 'custom'} of the particle-size input.
disabled(material) == material # "custom"

(***************************************************************************)
(* generatePattern.                                                        *)
(***************************************************************************)
Min(a, b) == IF a <= b THEN a ELSE b

\* Mutant of scaleFactor: the zoom is left out.
scaleFactorNoZoom(z) == baseScaleFactor * 10

\* const scaleFactor = baseScaleFactor * zoomLevel[0], times ten (z in tenths).
scaleFactor(z) == baseScaleFactor * z

\* Mutant of sinTheta: the order divides instead of multiplying.
sinThetaOrderBelow(m, W, P) ==
  IF W.nan \/ P.nan \/ (W.v = 0 /\ P.v = 0)
  THEN [kind |-> "nan", num |-> 0, den |-> 1]
  ELSE IF P.v = 0 THEN [kind |-> "inf", num |-> Sign(W.v), den |-> 1]
  ELSE LET a == W.v * Sign(P.v)
           b == 1000 * Abs(P.v) * m
           g == Gcd(a, b)
       IN [kind |-> "fin", num |-> a \div g, den |-> b \div g]

\* m * wavelengthSI / particleSizeSI with wavelengthSI = W * 1e-9 and
\* particleSizeSI = P * 1e-6: the fraction m*W / (1000*P) in lowest terms,
\* NaN from a NaN operand or 0/0, an infinity from a zero particle size.
sinTheta(m, W, P) ==
  IF W.nan \/ P.nan \/ (W.v = 0 /\ P.v = 0)
  THEN [kind |-> "nan", num |-> 0, den |-> 1]
  ELSE IF P.v = 0 THEN [kind |-> "inf", num |-> Sign(W.v), den |-> 1]
  ELSE LET a == m * W.v * Sign(P.v)
           b == 1000 * Abs(P.v)
           g == Gcd(a, b)
       IN [kind |-> "fin", num |-> a \div g, den |-> b \div g]

\* Math.abs(sinTheta) >= 1: false for NaN.
absAtLeastOne(s) ==
  \/ s.kind = "inf"
  \/ s.kind = "fin" /\ Abs(s.num) >= s.den

\* radius * scaleFactor with radius = distanceSI * Math.tan(Math.asin(s)) and
\* distanceSI = D * 1e-2.  For |s| < 1, tan(asin(s)) is
\* s.num / sqrt(s.den^2 - s.num^2), so the result is
\* D * scaleFactor * s.num / (1000 * sqrt(s.den^2 - s.num^2)).
\* Math.asin is NaN outside [-1, 1] and for NaN; the loop never gets here with
\* |s| = 1, where Math.tan(Math.asin(s)) is about 1.6e16 in magnitude: that
\* radius is given as a million pixels of the right sign.
pixelRadius(m, W, D, P, z) ==
  LET s == sinTheta(m, W, P)
  IN IF s.kind # "fin" \/ D.nan \/ Abs(s.num) > s.den THEN RNaN
     ELSE LET k == D.v * scaleFactor(z)
              g == Gcd(k, 1000)
          IN IF Abs(s.num) = s.den
             THEN RInt(Sign(k) * s.num * 1000000)
             ELSE Real((k \div g) * s.num, 1000 \div g,
                       s.den * s.den - s.num * s.num)

\* Math.min(width, height) / 2
halfMin == Real(Min(canvasWidth, canvasHeight), 2, 1)

\* Mutants of fitsOnCanvas: < for <=, and !(pixelRadius > limit) for <=.
fitsStrictly(pr) == RLe(pr, halfMin) /\ ~RLe(halfMin, pr)
fitsUnlessGreater(pr) == ~RGt(pr, halfMin)

\* pixelRadius <= Math.min(width, height) / 2
fitsOnCanvas(pr) == RLe(pr, halfMin)

clearOp == [op |-> "fillRect", style |-> "black", w |-> canvasWidth, h |-> canvasHeight]
crosshairOp == [op |-> "crosshair", x |-> canvasWidth \div 2, y |-> canvasHeight \div 2]
spotOp == [op |-> "spot", r |-> spotRadius]
ringOp(m, pr) == [op |-> "ring", m |-> m, r |-> pr]
labelOp(m, pr) == [op |-> "label", m |-> m, r |-> pr]

\* The for loop from order m on.  log records what happened to each order:
\* "angle" (continue), "offcanvas" (the if is false), "drawn", or "threw"
\* (ctx.arc raises IndexSizeError on a negative radius and the loop ends).
RECURSIVE ringLoop(_, _, _, _, _, _, _)
ringLoop(m, W, D, P, z, ops, log) ==
  IF m > maxOrder THEN [ops |-> ops, log |-> log, thrown |-> FALSE]
  ELSE IF absAtLeastOne(sinTheta(m, W, P))
  THEN ringLoop(m + 1, W, D, P, z, ops, Append(log, "angle"))
  ELSE LET pr == pixelRadius(m, W, D, P, z)
       IN IF ~fitsOnCanvas(pr)
          THEN ringLoop(m + 1, W, D, P, z, ops, Append(log, "offcanvas"))
          ELSE IF pr.num < 0
          THEN [ops |-> ops, log |-> Append(log, "threw"), thrown |-> TRUE]
          ELSE ringLoop(m + 1, W, D, P, z,
                        ops \o <<ringOp(m, pr), labelOp(m, pr)>>,
                        Append(log, "drawn"))

\* generatePattern on the canvas content cv: what the canvas holds afterwards,
\* whether a context was obtained, the per-order log and whether it threw.
generatePattern(env, cv, w, d, p, z) ==
  IF env # "ok"
  THEN [ops |-> cv, ran |-> FALSE, log |-> <<>>, thrown |-> FALSE]
  ELSE LET r == ringLoop(1, parseFloat(w), parseFloat(d), parseFloat(p), z,
                         <<clearOp, crosshairOp, spotOp>>, <<>>)
       IN [ops |-> r.ops, ran |-> TRUE, log |-> r.log, thrown |-> r.thrown]

\* The record kept of a call of generatePattern.
runRecord(r, w, d, p, mat, z) ==
  [ran |-> r.ran, w |-> w, d |-> d, p |-> p, mat |-> mat, z |-> z,
   log |-> r.log, thrown |-> r.thrown]

(***************************************************************************)
(* takeScreenshot: the hidden canvas and the download count afterwards.    *)
(* The composed picture (pattern, caption, timestamp) is recorded only as  *)
(* painted.                                                                *)
(***************************************************************************)
\* Mutant of takeScreenshot: the context of the wrong canvas is tested.
takeScreenshotWrongContext(mEnv, sEnv, sh, dl) ==
  IF mEnv = "noCanvas" \/ sEnv = "noCanvas" THEN [shot |-> sh, downloads |-> dl]
  ELSE IF mEnv = "noContext" THEN [shot |-> sh, downloads |-> dl]
  ELSE [shot |-> [width |-> canvasWidth,
                  height |-> canvasHeight + captionBand,
                  painted |-> TRUE],
        downloads |-> dl + 1]

takeScreenshot(mEnv, sEnv, sh, dl) ==
  IF mEnv = "noCanvas" \/ sEnv = "noCanvas" THEN [shot |-> sh, downloads |-> dl]
  ELSE IF sEnv = "noContext" THEN [shot |-> sh, downloads |-> dl]
  ELSE [shot |-> [width |-> canvasWidth,
                  height |-> canvasHeight + captionBand,
                  painted |-> TRUE],
        downloads |-> dl + 1]

(***************************************************************************)
(* The component.                                                          *)
(***************************************************************************)
Init ==
  /\ wavelength = <<"6", "5", "0">>
  /\ distance = <<"1", "0", "0">>
  /\ particleSize = <<"1", "0">>
  /\ selectedMaterial = "lycopodium"
  /\ zoomLevel = 10
  /\ materialEffect = TRUE
  /\ renderEffect = TRUE
  /\ queued = <<>>
  /\ mounted = TRUE
  /\ canvas = <<>>
  /\ mainEnv \in Envs
  /\ shotEnv \in Envs
  /\ shot = [width |-> shotWidth, height |-> shotHeight, painted |-> FALSE]
  /\ shotCalls = 0
  /\ downloads = 0
  /\ lastRun = [ran |-> FALSE, w |-> <<>>, d |-> <<>>, p |-> <<>>,
                mat |-> "custom", z |-> 0, log |-> <<>>, thrown |-> FALSE]
  /\ typed = <<>>
  /\ scen = "none"

\* Nothing is pending: the handlers of user events run only then.
Quiescent == ~materialEffect /\ ~renderEffect /\ queued = <<>>
Idle == mounted /\ Quiescent

\* onChange of the wavelength input: setWavelength(e.target.value)
EditWavelength ==
  \E v \in WavelengthChoices :
    /\ Idle
    /\ v # wavelength
    /\ wavelength' = v
    /\ renderEffect' = TRUE
    /\ UNCHANGED <<distance, particleSize, selectedMaterial, zoomLevel,
                   materialEffect, queued, mounted, canvas, mainEnv, shotEnv,
                   shot, shotCalls, downloads, lastRun, typed, scen>>

\* onChange of the distance input: setDistance(e.target.value)
EditDistance ==
  \E v \in DistanceChoices :
    /\ Idle
    /\ v # distance
    /\ distance' = v
    /\ renderEffect' = TRUE
    /\ UNCHANGED <<wavelength, particleSize, selectedMaterial, zoomLevel,
                   materialEffect, queued, mounted, canvas, mainEnv, shotEnv,
                   shot, shotCalls, downloads, lastRun, typed, scen>>

\* onChange of the particle-size input, which is disabled unless custom.
EditParticleSize ==
  \E v \in ParticleChoices :
    /\ Idle
    /\ ~disabled(selectedMaterial)
    /\ typed' = v
    /\ scen' = "typed"
    /\ particleSize' = v
    /\ renderEffect' = (v # particleSize)
    /\ UNCHANGED <<wavelength, distance, selectedMaterial, zoomLevel,
                   materialEffect, queued, mounted, canvas, mainEnv, shotEnv,
                   shot, shotCalls, downloads, lastRun>>

\* onChange of the material select: setSelectedMaterial(e.target.value)
SelectMaterial ==
  \E mat \in Materials :
    /\ Idle
    /\ mat # selectedMaterial
    /\ selectedMaterial' = mat
    /\ materialEffect' = TRUE
    /\ renderEffect' = TRUE
    /\ scen' = IF scen = "typed" /\ mat = "lycopodium" THEN "lyco"
               ELSE IF scen = "lyco" /\ mat = "custom" THEN "back"
               ELSE "none"
    /\ typed' = IF scen' = "none" THEN <<>> ELSE typed
    /\ UNCHANGED <<wavelength, distance, particleSize, zoomLevel, queued,
                   mounted, canvas, mainEnv, shotEnv, shot, shotCalls,
                   downloads, lastRun>>

\* Mutant of SetZoom: zoomLevel missing from the render effect's dependencies.
SetZoomNoRender ==
  \E z \in ZoomChoices :
    /\ Idle
    /\ z # zoomLevel
    /\ zoomLevel' = z
    /\ UNCHANGED <<wavelength, distance, particleSize, selectedMaterial,
                   materialEffect, renderEffect, queued, mounted, canvas,
                   mainEnv, shotEnv, shot, shotCalls, downloads, lastRun,
                   typed, scen>>

\* onValueChange of the slider: setZoomLevel
SetZoom ==
  \E z \in ZoomChoices :
    /\ Idle
    /\ z # zoomLevel
    /\ zoomLevel' = z
    /\ renderEffect' = TRUE
    /\ UNCHANGED <<wavelength, distance, particleSize, selectedMaterial,
                   materialEffect, queued, mounted, canvas, mainEnv, shotEnv,
                   shot, shotCalls, downloads, lastRun, typed, scen>>

\* Mutant of presetString: the fallback '10' whatever the material.
presetStringFallback(material) == <<"1", "0">>

\* The string the material effect passes to setParticleSize.
presetString(material) ==
  LET str == toString(materialsData[material][1])
  IN IF str = <<>> THEN <<"1", "0">> ELSE str

\* useEffect(..., [selectedMaterial]): it runs first after a commit.
RunMaterialEffect ==
  /\ mounted
  /\ materialEffect
  /\ materialEffect' = FALSE
  /\ queued' = IF selectedMaterial # "custom" /\ Truthy(materialsData[selectedMaterial])
               THEN <<presetString(selectedMaterial)>>
               ELSE queued
  /\ UNCHANGED <<wavelength, distance, particleSize, selectedMaterial, zoomLevel,
                 renderEffect, mounted, canvas, mainEnv, shotEnv, shot,
                 shotCalls, downloads, lastRun, typed, scen>>

\* useEffect(() => generatePattern(), [wavelength, distance, particleSize,
\* selectedMaterial, zoomLevel]): it reads the state of the committed render.
\* An exception in an effect makes React unmount the component.
RunRenderEffect ==
  /\ mounted
  /\ ~materialEffect
  /\ renderEffect
  /\ LET r == generatePattern(mainEnv, canvas, wavelength, distance,
                              particleSize, zoomLevel)
     IN /\ canvas' = r.ops
        /\ lastRun' = IF r.ran
                      THEN runRecord(r, wavelength, distance, particleSize,
                                     selectedMaterial, zoomLevel)
                      ELSE lastRun
        /\ mounted' = ~r.thrown
        /\ queued' = IF r.thrown THEN <<>> ELSE queued
  /\ renderEffect' = FALSE
  /\ UNCHANGED <<wavelength, distance, particleSize, selectedMaterial, zoomLevel,
                 materialEffect, mainEnv, shotEnv, shot, shotCalls, downloads,
                 typed, scen>>

\* The render React does for the update an effect queued; the render effect
\* runs again if particleSize changed.
Rerender ==
  /\ mounted
  /\ ~materialEffect
  /\ ~renderEffect
  /\ queued # <<>>
  /\ particleSize' = queued[1]
  /\ renderEffect' = (queued[1] # particleSize)
  /\ queued' = <<>>
  /\ UNCHANGED <<wavelength, distance, selectedMaterial, zoomLevel,
                 materialEffect, mounted, canvas, mainEnv, shotEnv, shot,
                 shotCalls, downloads, lastRun, typed, scen>>

\* onClick of "Generate Diffraction Pattern".
ClickGenerate ==
  /\ Idle
  /\ LET r == generatePattern(mainEnv, canvas, wavelength, distance,
                              particleSize, zoomLevel)
     IN /\ canvas' = r.ops
        /\ lastRun' = IF r.ran
                      THEN runRecord(r, wavelength, distance, particleSize,
                                     selectedMaterial, zoomLevel)
                      ELSE lastRun
  /\ UNCHANGED <<wavelength, distance, particleSize, selectedMaterial, zoomLevel,
                 materialEffect, renderEffect, queued, mounted, mainEnv,
                 shotEnv, shot, shotCalls, downloads, typed, scen>>

\* onClick of "Capture Screenshot".
TakeScreenshot ==
  /\ Idle
  /\ shotCalls < MaxShots
  /\ shotCalls' = shotCalls + 1
  /\ LET r == takeScreenshot(mainEnv, shotEnv, shot, downloads)
     IN /\ shot' = r.shot
        /\ downloads' = r.downloads
  /\ UNCHANGED <<wavelength, distance, particleSize, selectedMaterial, zoomLevel,
                 materialEffect, renderEffect, queued, mounted, canvas, mainEnv,
                 shotEnv, lastRun, typed, scen>>

Next ==
  \/ EditWavelength
  \/ EditDistance
  \/ EditParticleSize
  \/ SelectMaterial
  \/ SetZoom
  \/ RunMaterialEffect
  \/ RunRenderEffect
  \/ Rerender
  \/ ClickGenerate
  \/ TakeScreenshot

Spec == Init /\ [][Next]_vars

(***************************************************************************)
(* generatePattern over its inputs: the states of Spec in which the render *)
(* effect is about to run, on a canvas not drawn on yet.  They are the     *)
(* mount; any strings in the fields with a particle size that agrees with  *)
(* the material (custom: a typed size or a preset left behind); and, after *)
(* a change of material, a preset material with the size of the commit     *)
(* before, which that commit's render drew without throwing.  The render   *)
(* effect and the button apply generatePattern.                            *)
(***************************************************************************)
Agrees(material, p) ==
  IF material = "custom" THEN p # <<"1", "0">> ELSE p = presetString(material)

RenderInit ==
  /\ wavelength \in WavelengthChoices
  /\ distance \in DistanceChoices
  /\ particleSize \in ParticleChoices \cup {<<"1", "0">>, <<"3", "0">>, <<"5">>}
  /\ selectedMaterial \in Materials
  /\ zoomLevel \in ZoomChoices
  /\ mainEnv = "ok"
  /\ \/ /\ wavelength = <<"6", "5", "0">>
        /\ distance = <<"1", "0", "0">>
        /\ particleSize = <<"1", "0">>
        /\ selectedMaterial = "lycopodium"
        /\ zoomLevel = 10
     \/ /\ particleSize # <<"1", "0">>
        /\ \/ Agrees(selectedMaterial, particleSize)
           \/ ~generatePattern(mainEnv, <<>>, wavelength, distance,
                               particleSize, zoomLevel).thrown
  /\ materialEffect = FALSE
  /\ renderEffect = TRUE
  /\ queued = IF Agrees(selectedMaterial, particleSize) THEN <<>>
              ELSE <<presetString(selectedMaterial)>>
  /\ mounted = TRUE
  /\ canvas = <<>>
  /\ shotEnv = "ok"
  /\ shot = [width |-> shotWidth, height |-> shotHeight, painted |-> FALSE]
  /\ shotCalls = 0
  /\ downloads = 0
  /\ lastRun = [ran |-> FALSE, w |-> <<>>, d |-> <<>>, p |-> <<>>,
                mat |-> "custom", z |-> 0, log |-> <<>>, thrown |-> FALSE]
  /\ typed = <<>>
  /\ scen = "none"

RenderNext ==
  \/ RunRenderEffect
  \/ ClickGenerate

RenderSpec == RenderInit /\ [][RenderNext]_vars

(***************************************************************************)
(* Properties.                                                             *)
(***************************************************************************)
Thirty == <<"3", "0">>
Five == <<"5">>
PresetText(material) == IF material = "lycopodium" THEN Thirty ELSE Five

\* C1 as claimed: in every state generatePattern reads, a material other
\* than custom comes with its preset particle size (30 for lycopodium, 5 for
\* silica) and a disabled particle-size field.  The code breaks it: the
\* state at mount is lycopodium with size '10', and the first render after
\* mount and after each change of material reads the size of the commit
\* the material effect has not yet corrected.
C1_PresetWhenRead ==
  lastRun.ran /\ lastRun.mat # "custom" =>
    lastRun.p = PresetText(lastRun.mat) /\ disabled(lastRun.mat)

\* C2 as claimed: a size v typed under custom, then lycopodium, then custom
\* again: after the first switch the size is '30' and the field disabled,
\* after the second the field is editable and the size is v again.
C2_RestoresTyped ==
  Quiescent =>
    /\ scen = "lyco" => particleSize = Thirty /\ disabled(selectedMaterial)
    /\ scen = "back" => ~disabled(selectedMaterial) /\ particleSize = typed

\* C2 amended: a size v typed under custom, then lycopodium, then custom
\* again: after the first switch the size is '30' and the field disabled,
\* after the second the field is editable and the size is still '30', the
\* preset the first switch wrote over v.
C2_KeepsPreset ==
  Quiescent =>
    /\ scen = "lyco" => particleSize = Thirty /\ disabled(selectedMaterial)
    /\ scen = "back" => ~disabled(selectedMaterial) /\ particleSize = Thirty

C2_Witness ==
  /\ Idle
  /\ scen = "back"
  /\ typed = <<"1", "3">>
  /\ selectedMaterial = "custom"
  /\ particleSize = Thirty

\* C3: once no effect and no state update is pending, the canvas holds what
\* generatePattern draws from the current wavelength, distance, particle
\* size and zoom: no render is left behind the state.
C3_CanvasCurrent ==
  Quiescent =>
    canvas = generatePattern(mainEnv, <<>>, wavelength, distance,
                             particleSize, zoomLevel).ops

C3_Witness ==
  /\ Idle
  /\ mainEnv = "ok"
  /\ zoomLevel = 20
  /\ selectedMaterial = "silica"
  /\ wavelength = <<"1", "0", "0", "0">>
  /\ distance = <<"1", "2">>
  /\ lastRun.ran /\ lastRun.z = 20 /\ lastRun.p = Five
  /\ Len(canvas) > 3

\* The inputs the last generatePattern parsed.
RunW == parseFloat(lastRun.w)
RunD == parseFloat(lastRun.d)
RunP == parseFloat(lastRun.p)
RunRadius(m) == pixelRadius(m, RunW, RunD, RunP, lastRun.z)

\* |m * wavelengthSI / particleSizeSI| >= 1, on the parsed numbers.
AngleOut(m, W, P) ==
  /\ ~W.nan
  /\ ~P.nan
  /\ IF P.v = 0 THEN W.v # 0 ELSE Abs(m * W.v) >= 1000 * Abs(P.v)

IsRing(o) == o.op = "ring"
Rings == SelectSeq(canvas, IsRing)
RingOf(m) == { i \in 1..Len(Rings) : Rings[i].m = m }
HalfCanvas == RInt(200)

\* The same value: equal, or both NaN.
RSame(x, y) == (x.nan /\ y.nan) \/ REq(x, y)

\* C4: a render draws no ring and no label of an order m with
\* |m * wavelengthSI / particleSizeSI| >= 1, goes on to the next order after
\* such an m (the loop ends only after order 10, or by the exception of a
\* negative radius), and draws no order outside 1..10.
C4_NoRingBeyondNinety ==
  lastRun.ran =>
    /\ \A i \in 1..Len(canvas) :
         canvas[i].op \in {"ring", "label"} =>
           /\ canvas[i].m \in 1..10
           /\ ~AngleOut(canvas[i].m, RunW, RunP)
    /\ Len(lastRun.log) <= 10
    /\ ~lastRun.thrown => Len(lastRun.log) = 10
    /\ \A m \in 1..Len(lastRun.log) :
         AngleOut(m, RunW, RunP) =>
           /\ lastRun.log[m] = "angle"
           /\ m < 10 => Len(lastRun.log) > m

C4_Witness ==
  /\ lastRun.ran
  /\ Len(lastRun.log) = 10
  /\ lastRun.log[3] = "drawn"
  /\ lastRun.log[5] = "angle"
  /\ AngleOut(5, RunW, RunP)
  /\ ~AngleOut(4, RunW, RunP)
  /\ RingOf(5) = {}

\* C5: an order that passes the angle check with pixelRadius > 200 (half the
\* smaller side of the 800x400 canvas) gets no ring, the orders after it are
\* still evaluated, an order with pixelRadius exactly 200 gets its ring, and
\* every ring drawn has the computed radius, not a clamped one.
C5_OffCanvasSkipped ==
  lastRun.ran =>
    \A m \in 1..Len(lastRun.log) :
      ~AngleOut(m, RunW, RunP) =>
        /\ RGt(RunRadius(m), HalfCanvas) =>
             /\ lastRun.log[m] = "offcanvas"
             /\ RingOf(m) = {}
             /\ m < 10 => Len(lastRun.log) > m
        /\ REq(RunRadius(m), HalfCanvas) =>
             /\ lastRun.log[m] = "drawn"
             /\ RingOf(m) # {}
        /\ \A i \in RingOf(m) :
             /\ Rings[i].r = RunRadius(m)
             /\ RLe(Rings[i].r, HalfCanvas)

C5_Witness ==
  /\ lastRun.ran
  /\ Len(lastRun.log) = 10
  /\ \E m \in 1..9 :
       /\ ~AngleOut(m + 1, RunW, RunP)
       /\ REq(RunRadius(m), HalfCanvas)
       /\ RingOf(m) # {}
       /\ RGt(RunRadius(m + 1), HalfCanvas)
       /\ lastRun.log[m + 1] = "offcanvas"

\* The orders a run of the loop skipped at the angle check.
AngleSkipped(log) == { m \in 1..Len(log) : log[m] = "angle" }

\* C6: with wavelength, distance and particle size fixed, the pixel radius
\* of every order that passes the angle check is proportional to the zoom
\* (radius at z2 times z equals radius at z times z2, for the zoom z of the
\* last render and every other zoom z2, also for the rings on the canvas),
\* and the orders skipped at the angle check are the same at every zoom.
C6_ZoomScales ==
  lastRun.ran =>
    \A z2 \in ZoomChoices :
      /\ \A m \in 1..10 :
           ~AngleOut(m, RunW, RunP) =>
             RSame(RTimesInt(pixelRadius(m, RunW, RunD, RunP, z2), lastRun.z),
                   RTimesInt(RunRadius(m), z2))
      /\ \A i \in 1..Len(Rings) :
           RSame(RTimesInt(pixelRadius(Rings[i].m, RunW, RunD, RunP, z2), lastRun.z),
                 RTimesInt(Rings[i].r, z2))
      /\ AngleSkipped(ringLoop(1, RunW, RunD, RunP, z2, <<>>, <<>>).log)
           = AngleSkipped(lastRun.log)

C6_Witness ==
  /\ lastRun.ran
  /\ lastRun.z = 20
  /\ Len(Rings) >= 2
  /\ AngleSkipped(lastRun.log) # {}
  /\ \E m \in 1..10 : lastRun.log[m] = "offcanvas"

RingsIncreasing ==
  \A i, j \in 1..Len(Rings) : i < j => Rings[i].m < Rings[j].m

C8_NaNDrawsNoRing ==
  lastRun.ran /\ (lastRun.w = <<>> \/ lastRun.d = <<>> \/ lastRun.p = <<>>) =>
    /\ ~lastRun.thrown
    /\ mounted
    /\ Len(lastRun.log) = 10
    /\ canvas = <<[op |-> "fillRect", style |-> "black", w |-> 800, h |-> 400],
                  [op |-> "crosshair", x |-> 400, y |-> 200],
                  [op |-> "spot", r |-> 5]>>

C8_Witness ==
  /\ lastRun.ran
  /\ lastRun.w = <<>>
  /\ lastRun.d # <<>>
  /\ lastRun.p # <<>>
  /\ wavelength = <<>>
  /\ Quiescent
  /\ Len(canvas) = 3

\* C9 as claimed: every render that obtains a context and completes ends
\* with the caption about the exaggerated scale, so the last thing on the
\* canvas is the caption.  generatePattern draws no caption at all.
C9_CaptionLast ==
  lastRun.ran /\ ~lastRun.thrown =>
    Len(canvas) > 0 /\ canvas[Len(canvas)].op = "caption"

\* The screenshot export has no surface to draw on.
ShotUnavailable == mainEnv = "noCanvas" \/ shotEnv # "ok"

C11_NoNegativeRadius ==
  (lastRun.ran /\ ~RunW.nan /\ ~RunD.nan /\ ~RunP.nan) =>
    /\ ~lastRun.thrown
    /\ \A m \in 1..Len(lastRun.log) : lastRun.log[m] # "threw"
    /\ \A i \in 1..Len(Rings) :
         /\ ~Rings[i].r.nan
         /\ RLe(RInt(0), Rings[i].r)
         /\ RLe(Rings[i].r, halfMin)
====
